---- MODULE Spec2Model ----
(***************************************************************************)
(* Model of the STIX extraction / merge engine of lib/stix.py, together    *)
(* with the fallback loader load_stix_objects of lib/intrusionSet.py, the  *)
(* command line of lib/stix.py, the init pipeline of main.py, and two runs *)
(* of the engine started side by side on the same directories.             *)
(*                                                                         *)
(* A file is a record [bid, objs, ok]: the bundle id, the object records   *)
(* of its "objects" array that can be read before any structural error,    *)
(* and whether the document is well-formed JSON.  An object is a record    *)
(* [id, type, source_ref, target_ref, name, rev, parse, typed]; an absent  *)
(* or empty string attribute is "", rev stands for the rest of the         *)
(* property bag, parse is what stix2.parse does with the raw dict, and     *)
(* typed tells a stix2 object (TRUE) from a raw dict (FALSE).              *)
(***************************************************************************)
EXTENDS Integers, Sequences, FiniteSets, TLC

\* ------------------------------------------------------------------ bounds
MaxObjs == 3      \* objects in the corpus read by extract
MaxFileLen == 2   \* objects in a candidate file of merge
MaxRuns == 1      \* commands run one after the other
MaxFaults == 1    \* environment failures (Bundle, open, serialize) per behaviour

\* --------------------------------------------------------------- constants
Canon == "stix_full.json"
CandA == "a.json"
CandB == "b.json"
RawNames == {CandA, CandB, Canon}
Candidates == {CandA, CandB}

NoFile == [bid |-> -1, objs |-> <<>>, ok |-> FALSE]
EmptyFile == [bid |-> 0, objs |-> <<>>, ok |-> FALSE]

Absent == ""
NoName == <<>>

\* ------------------------------------------------------------- the objects
Obj(id, type, src, tgt, name, rev, parse) ==
    [id |-> id, type |-> type, source_ref |-> src, target_ref |-> tgt,
     name |-> name, rev |-> rev, parse |-> parse, typed |-> FALSE]

Rel(id, src, tgt) == Obj(id, "relationship", src, tgt, NoName, 1, "ok")

G1 == Obj("g1", "intrusion-set", Absent, Absent, <<"A", " ">>, 1, "ok")
G1b == Obj("g1", "intrusion-set", Absent, Absent, <<"A", "_">>, 2, "ok")
G2 == Obj("g2", "intrusion-set", Absent, Absent, <<"B", "/">>, 1, "ok")
GBad == Obj("g2", "intrusion-set", Absent, Absent, <<"B", "/">>, 2, "raise")
A1 == Obj("a1", "attack-pattern", Absent, Absent, <<"T">>, 1, "ok")
A2 == Obj("a2", "attack-pattern", Absent, Absent, <<"U">>, 1, "ok")
Cust == Obj("c1", "x-custom", Absent, Absent, NoName, 1, "dict")
NoIdObj == Obj(Absent, "x-custom", Absent, Absent, NoName, 1, "dict")
RBad == Obj("r2", "relationship", "g1", "a1", NoName, 2, "raise")

CorpusObjs ==
    {G1, G1b, G2, GBad, A1,
     Rel("r1", "g1", "a1"), Rel("r1", "a1", "g1"), Rel("r2", "g2", "g1")}

MergeObjs == {G1, G1b, A1}

\* the corpus of the specification's extraction scenario
ScenarioCorpus ==
    <<G1, A1, A2, Rel("r1", "g1", "a1"), Rel("r2", "g1", "a2")>>

\* longer corpora: an object reached twice, two groups related to each other,
\* one unparsable object among parsable ones, related objects that stand in
\* the corpus in another order than their relationships, relationships to
\* ids that no object of the corpus has
ScenarioCorpora ==
    {ScenarioCorpus,
     <<G1, Rel("r1", "g1", "a1"), Rel("r2", "g1", "a1"), A1>>,
     <<Rel("r1", "a1", "g1"), A1, Rel("r2", "g1", "a1"), G1>>,
     <<G2, G1, Rel("r2", "g2", "g1"), A1>>,
     <<G1, Rel("r2", "g1", "g1"), Rel("r1", "g1", "a1"), A1>>,
     <<G1b, Rel("r1", "g1", "a1"), A1, G1, Rel("r1", "a1", "g1")>>,
     <<G1, RBad, A1, Rel("r1", "g1", "a1")>>,
     <<GBad, Cust, G1, G2>>,
     <<G1, A2, A1, Rel("r1", "g1", "a1"), Rel("r2", "g1", "a2")>>,
     <<Rel("r1", "a1", "g1"), G1, Rel("r2", "g2", "g1"), A1, G2>>,
     <<G1, Rel("r2", "g1", "x9"), Rel("r1", "g1", "a1"), A1, Rel("r3", "x8", "g1")>>}

\* the candidate files of the specification's merge scenario (X, Y and Y, Z)
ScenarioMerge == <<<<G1, A1>>, <<A1, G2>>>>

\* candidate files holding an object that stix2 refuses to parse
RaisingMerge == {<<<<G1, GBad>>, <<A1>>>>, <<<<GBad>>, <<GBad, G1>>>>}

\* candidate files holding records without an id
NoIdMerge ==
    {<<<<NoIdObj, G1>>, <<NoIdObj>>>>, <<<<G1, NoIdObj>>, <<G1b, NoIdObj>>>>,
     <<<<NoIdObj>>, <<>>>>, <<<<A1, NoIdObj>>, <<A1, G1>>>>}

SeqsUpTo(S, n) == UNION {[1..k -> S] : k \in 0..n}

Perms(S) ==
    {s \in [1..Cardinality(S) -> S] : \A x \in S : \E k \in DOMAIN s : s[k] = x}

\* raw and aptDir are the two directories; out is the console of the command
\* that ran last; canonBefore is the canonical file as the last merge found it;
\* cli is the command line of lib/stix.py and the operations its main called;
\* stage is the position of the init pipeline of main.py; procs are runs
\* started side by side on the same directories, globOrder the order in which
\* the raw directory lists its files, overlap whether two runs ever ran at
\* the same time
VARIABLES raw, aptDir, pc, lastCmd, exitCode, objects, skipped, idx, saved,
          log, rep, loaded, listed, nextBid, runs, faults, out,
          canonBefore, cli, stage, procs, globOrder, overlap

vars == <<raw, aptDir, pc, lastCmd, exitCode, objects, skipped, idx, saved,
          log, rep, loaded, listed, nextBid, runs, faults, out,
          canonBefore, cli, stage, procs, globOrder, overlap>>

\* what a command started on its own leaves alone
sideBySide == <<procs, globOrder, overlap>>

NoRep == [mode |-> "none", order |-> <<>>, total |-> 0, unique |-> 0]

\* a line printed on the console: which message, about which file, with
\* which numbers
Msg(text, arg, n, m) == [text |-> text, arg |-> arg, n |-> n, m |-> m]

\* ---------------------------------------------------------------- helpers
\* getattr(obj, attr, default) on a stix2 object; a raw dict has no attributes
GetAttr(obj, attr, default) ==
    IF obj.typed /\ obj[attr] # Absent THEN obj[attr] ELSE default

GetName(obj, default) ==
    IF obj.typed /\ obj.name # NoName THEN obj.name ELSE default

\* a parser that fills in what an object leaves out
StixParseWithDefaults(obj) ==
    CASE obj.parse = "ok" ->
             [status |-> "obj",
              value |-> [obj EXCEPT !.typed = TRUE,
                                    !.name = IF @ = NoName THEN <<"unnamed">> ELSE @]]
      [] obj.parse = "dict" -> [status |-> "dict", value |-> obj]
      [] OTHER -> [status |-> "raise", value |-> obj]

\* stix2.parse(obj, allow_custom=True): a typed object, the dict itself for an
\* unknown custom type, or an exception
StixParse(obj) ==
    CASE obj.parse = "ok" -> [status |-> "obj", value |-> [obj EXCEPT !.typed = TRUE]]
      [] obj.parse = "dict" -> [status |-> "dict", value |-> obj]
      [] OTHER -> [status |-> "raise", value |-> obj]

\* bundle.serialize(): every object goes back to its JSON property bag
Serialize(objs) == [k \in DOMAIN objs |-> [objs[k] EXCEPT !.typed = FALSE]]

WriteFile(dir, f, content) ==
    [x \in (DOMAIN dir) \cup {f} |-> IF x = f THEN content ELSE dir[x]]

\* ------------------------------------------------------------ Object Loader
FallbackTypes == {"attack-pattern", "campaign", "intrusion-set"}

\* a loader loop that gives up at the first object it cannot parse
RECURSIVE LoadLoopStopAtFailure(_, _, _, _)
LoadLoopStopAtFailure(raws, k, parsed_objects, skip) ==
    IF k > Len(raws)
    THEN [fatal |-> FALSE, parsed |-> parsed_objects, skipped |-> skip]
    ELSE LET p == StixParse(raws[k])
         IN  IF p.status = "obj"
             THEN LoadLoopStopAtFailure(raws, k + 1, Append(parsed_objects, p.value), skip)
             ELSE [fatal |-> FALSE, parsed |-> parsed_objects, skipped |-> skip + 1]

\* a loader loop with the raw-dict fallback of the generators' loader
RECURSIVE LoadLoopWithFallback(_, _, _, _)
LoadLoopWithFallback(raws, k, parsed_objects, skip) ==
    IF k > Len(raws)
    THEN [fatal |-> FALSE, parsed |-> parsed_objects, skipped |-> skip]
    ELSE LET p == StixParse(raws[k])
         IN  IF p.status = "obj"
             THEN LoadLoopWithFallback(raws, k + 1, Append(parsed_objects, p.value), skip)
             ELSE IF p.status = "raise" /\ raws[k].type \in FallbackTypes
                  THEN LoadLoopWithFallback(raws, k + 1,
                                            Append(parsed_objects, raws[k]), skip)
                  ELSE LoadLoopWithFallback(raws, k + 1, parsed_objects, skip + 1)

\* the loop of load_stix_data over raw_data["objects"]
RECURSIVE LoadLoop(_, _, _, _)
LoadLoop(raws, k, parsed_objects, skip) ==
    IF k > Len(raws)
    THEN [fatal |-> FALSE, parsed |-> parsed_objects, skipped |-> skip]
    ELSE LET p == StixParse(raws[k])
         IN  IF p.status = "obj"
             THEN LoadLoop(raws, k + 1, Append(parsed_objects, p.value), skip)
             ELSE LoadLoop(raws, k + 1, parsed_objects, skip + 1)

\* a loader that answers a missing or invalid file with an empty list
load_stix_data_lenient(file) ==
    IF file = NoFile \/ ~file.ok
    THEN [fatal |-> FALSE, parsed |-> <<>>, skipped |-> 0]
    ELSE LoadLoop(file.objs, 1, <<>>, 0)

load_stix_data(file) ==
    IF file = NoFile \/ ~file.ok
    THEN [fatal |-> TRUE, parsed |-> <<>>, skipped |-> 0]
    ELSE LoadLoop(file.objs, 1, <<>>, 0)

\* the loop of load_stix_objects (lib/intrusionSet.py)
RECURSIVE FallbackLoop(_, _, _)
FallbackLoop(raws, k, parsed) ==
    IF k > Len(raws)
    THEN parsed
    ELSE LET p == StixParse(raws[k])
         IN  IF p.status # "raise"
             THEN FallbackLoop(raws, k + 1, Append(parsed, p.value))
             ELSE IF raws[k].type \in FallbackTypes
                  THEN FallbackLoop(raws, k + 1, Append(parsed, raws[k]))
                  ELSE FallbackLoop(raws, k + 1, parsed)

load_stix_objects(file) ==
    IF file = NoFile \/ ~file.ok THEN <<>> ELSE FallbackLoop(file.objs, 1, <<>>)

\* get_object_attribute: works on stix2 objects and on raw dicts alike
get_object_attribute(obj, attr, default) ==
    IF obj[attr] # Absent THEN obj[attr] ELSE default

\* ----------------------------------------------------- Relationship Resolver
SeqRange(s) == {s[k] : k \in DOMAIN s}

\* a resolver that forgets the reverse direction
get_related_objects_forward(objs, source_id) ==
    LET IsFwd(o) == GetAttr(o, "type", "") = "relationship"
                    /\ GetAttr(o, "source_ref", "") = source_id
        relationships == SelectSeq(objs, IsFwd)
        target_ids == {GetAttr(r, "target_ref", "") : r \in SeqRange(relationships)}
        IsTarget(o) == GetAttr(o, "id", "") \in target_ids
    IN  [relationships |-> relationships, targets |-> SelectSeq(objs, IsTarget)]

\* a resolver that returns only the relationships whose other end is there
get_related_objects_resolved_only(objs, source_id) ==
    LET ids == {GetAttr(o, "id", "") : o \in SeqRange(objs)}
        IsFwd(o) == /\ GetAttr(o, "type", "") = "relationship"
                    /\ GetAttr(o, "source_ref", "") = source_id
                    /\ GetAttr(o, "target_ref", "") \in ids
        IsRev(o) == /\ GetAttr(o, "type", "") = "relationship"
                    /\ GetAttr(o, "target_ref", "") = source_id
                    /\ GetAttr(o, "source_ref", "") \in ids
        target_ids == {GetAttr(r, "target_ref", "") : r \in SeqRange(SelectSeq(objs, IsFwd))}
        source_ids == {GetAttr(r, "source_ref", "") : r \in SeqRange(SelectSeq(objs, IsRev))}
        IsTarget(o) == GetAttr(o, "id", "") \in target_ids
        IsRevSource(o) == GetAttr(o, "id", "") \in source_ids
    IN  [relationships |-> SelectSeq(objs, IsFwd) \o SelectSeq(objs, IsRev),
         targets |-> SelectSeq(objs, IsTarget) \o SelectSeq(objs, IsRevSource)]

\* a resolver that also follows the relationships of the related objects
get_related_objects_two_hops(objs, source_id) ==
    LET IsRel(o) == GetAttr(o, "type", "") = "relationship"
        IsFwd(o) == IsRel(o) /\ GetAttr(o, "source_ref", "") = source_id
        IsRev(o) == IsRel(o) /\ GetAttr(o, "target_ref", "") = source_id
        relationships == SelectSeq(objs, IsFwd) \o SelectSeq(objs, IsRev)
        near == {GetAttr(r, "target_ref", "") : r \in SeqRange(SelectSeq(objs, IsFwd))}
                   \cup {GetAttr(r, "source_ref", "") : r \in SeqRange(SelectSeq(objs, IsRev))}
        Touches(o) == IsRel(o) /\ (GetAttr(o, "source_ref", "") \in near
                                      \/ GetAttr(o, "target_ref", "") \in near)
        far == {GetAttr(r, "target_ref", "") : r \in SeqRange(SelectSeq(objs, Touches))}
                  \cup {GetAttr(r, "source_ref", "") : r \in SeqRange(SelectSeq(objs, Touches))}
        IsNear(o) == GetAttr(o, "id", "") \in near
        IsFar(o) == GetAttr(o, "id", "") \in far \ near
    IN  [relationships |-> relationships,
         targets |-> SelectSeq(objs, IsNear) \o SelectSeq(objs, IsFar)]

\* a resolver that lists the related objects relationship by relationship
RECURSIVE EndpointsOf(_, _, _, _)
EndpointsOf(objs, rels, k, attr) ==
    IF k > Len(rels)
    THEN <<>>
    ELSE LET IsEnd(o) == GetAttr(o, "id", "") = GetAttr(rels[k], attr, "")
         IN  SelectSeq(objs, IsEnd) \o EndpointsOf(objs, rels, k + 1, attr)

get_related_objects_by_relationship(objs, source_id) ==
    LET IsFwd(o) == GetAttr(o, "type", "") = "relationship"
                    /\ GetAttr(o, "source_ref", "") = source_id
        IsRev(o) == GetAttr(o, "type", "") = "relationship"
                    /\ GetAttr(o, "target_ref", "") = source_id
        relationships == SelectSeq(objs, IsFwd)
        reverse_relationships == SelectSeq(objs, IsRev)
    IN  [relationships |-> relationships \o reverse_relationships,
         targets |-> EndpointsOf(objs, relationships, 1, "target_ref")
                        \o EndpointsOf(objs, reverse_relationships, 1, "source_ref")]

get_related_objects(objs, source_id) ==
    LET IsFwd(o) == GetAttr(o, "type", "") = "relationship"
                    /\ GetAttr(o, "source_ref", "") = source_id
        IsRev(o) == GetAttr(o, "type", "") = "relationship"
                    /\ GetAttr(o, "target_ref", "") = source_id
        relationships == SelectSeq(objs, IsFwd)
        target_ids == {GetAttr(r, "target_ref", "") : r \in SeqRange(relationships)}
        IsTarget(o) == GetAttr(o, "id", "") \in target_ids
        targets == SelectSeq(objs, IsTarget)
        reverse_relationships == SelectSeq(objs, IsRev)
        reverse_source_ids ==
            {GetAttr(r, "source_ref", "") : r \in SeqRange(reverse_relationships)}
        IsRevSource(o) == GetAttr(o, "id", "") \in reverse_source_ids
        reverse_sources == SelectSeq(objs, IsRevSource)
    IN  [relationships |-> relationships \o reverse_relationships,
         targets |-> targets \o reverse_sources]

\* a resolver that takes the relationships it returns out of the list
ObjectsAfterResolveConsuming(objs, source_id) ==
    LET Rest(o) == ~(GetAttr(o, "type", "") = "relationship"
                       /\ source_id \in {GetAttr(o, "source_ref", ""),
                                         GetAttr(o, "target_ref", "")})
    IN  SelectSeq(objs, Rest)

\* the list handed to get_related_objects, after the call: the function only
\* reads it (comprehensions over objects, getattr on its elements)
ObjectsAfterResolve(objs, source_id) == objs

\* ------------------------------------------------------- Subgraph Extractor
\* a selection that takes every extraction-relevant kind for a group
IsExtractionRelevant(o) == GetAttr(o, "type", "") \in FallbackTypes

IsIntrusionSet(o) == GetAttr(o, "type", "") = "intrusion-set"

intrusion_sets == SelectSeq(objects, IsIntrusionSet)

\* a sanitizer that replaces spaces only
SanitizeSpacesOnly(name) ==
    [k \in DOMAIN name |-> IF name[k] = " " THEN "_" ELSE name[k]]

\* .replace(" ", "_").replace("/", "_")
Sanitize(name) ==
    [k \in DOMAIN name |-> IF name[k] \in {" ", "/"} THEN "_" ELSE name[k]]

UnknownApt == <<"unknown_apt">>

GroupFile(apt_group) ==
    <<Sanitize(GetName(apt_group, UnknownApt)), GetAttr(apt_group, "id", "unknown_id")>>

\* an assembly loop that forgets the seen_ids test
DedupLoopKeepAll(cands, k, seen_ids, unique_objects) ==
    LET HasId(o) == GetAttr(o, "id", "") # "" IN SelectSeq(cands, HasId)

\* the seen_ids loop of extract_all_apts
RECURSIVE DedupLoop(_, _, _, _)
DedupLoop(cands, k, seen_ids, unique_objects) ==
    IF k > Len(cands)
    THEN unique_objects
    ELSE LET obj_id == GetAttr(cands[k], "id", "")
         IN  IF obj_id # "" /\ obj_id \notin seen_ids
             THEN DedupLoop(cands, k + 1, seen_ids \cup {obj_id},
                            Append(unique_objects, cands[k]))
             ELSE DedupLoop(cands, k + 1, seen_ids, unique_objects)

\* an assembly that puts the related objects before the relationships
AssemblyTargetsFirst(objs, apt_group) ==
    LET r == get_related_objects(objs, GetAttr(apt_group, "id", "unknown_id"))
    IN  <<apt_group>> \o r.targets \o r.relationships

Assembly(objs, apt_group) ==
    LET r == get_related_objects(objs, GetAttr(apt_group, "id", "unknown_id"))
    IN  <<apt_group>> \o r.relationships \o r.targets

UniqueObjects(objs, apt_group) == DedupLoop(Assembly(objs, apt_group), 1, {}, <<>>)

Faults == {"none", "bundle", "open", "serialize"}

FaultOk(fault) == fault = "none" \/ faults < MaxFaults

\* extract_all_apts up to its loop: the corpus is loaded, the groups are found
ExtractBegin ==
    /\ pc = "idle"
    /\ lastCmd' = "extract"
    /\ LET r == load_stix_data(raw[Canon])
           sets == SelectSeq(r.parsed, IsIntrusionSet)
       IN  /\ objects' = r.parsed
           /\ skipped' = r.skipped
           /\ IF r.fatal
              THEN /\ pc' = "idle" /\ exitCode' = 1
                   /\ out' = <<Msg("load_error", <<>>, 0, 0)>>
              ELSE IF sets = <<>>
                   THEN /\ pc' = "idle" /\ exitCode' = 0
                        /\ out' = <<Msg("parsed", <<>>, Len(r.parsed), r.skipped),
                                    Msg("no_intrusion_sets", <<>>, 0, 0)>>
                   ELSE /\ pc' = "extract" /\ exitCode' = -1
                        /\ out' = <<Msg("parsed", <<>>, Len(r.parsed), r.skipped),
                                    Msg("found", <<>>, Len(sets), 0)>>
    /\ idx' = 1
    /\ saved' = 1
    /\ log' = <<>>
    /\ UNCHANGED <<raw, aptDir, rep, loaded, listed, nextBid, faults, canonBefore>>

\* extract_all_apts() called on its own
ExtractStart ==
    /\ stage = "none"
    /\ runs < MaxRuns
    /\ runs' = runs + 1
    /\ ExtractBegin
    /\ UNCHANGED <<cli, stage, sideBySide>>

\* one iteration of the loop over intrusion_sets
ExtractGroup ==
    /\ pc = "extract"
    /\ \E fault \in Faults :
        /\ FaultOk(fault)
        /\ LET apt_group == intrusion_sets[idx]
               filename == GroupFile(apt_group)
               unique_objects == UniqueObjects(objects, apt_group)
           IN  /\ CASE fault = "none" ->
                        /\ aptDir' = WriteFile(aptDir, filename,
                               [bid |-> nextBid, objs |-> Serialize(unique_objects),
                                ok |-> TRUE])
                        /\ saved' = saved + 1
                        /\ nextBid' = nextBid + 1
                        /\ faults' = faults
                     [] fault = "bundle" ->
                        /\ UNCHANGED <<aptDir, saved, nextBid>>
                        /\ faults' = faults + 1
                     [] fault = "open" ->
                        /\ UNCHANGED <<aptDir, saved>>
                        /\ nextBid' = nextBid + 1
                        /\ faults' = faults + 1
                     [] fault = "serialize" ->
                        /\ aptDir' = WriteFile(aptDir, filename, EmptyFile)
                        /\ nextBid' = nextBid + 1
                        /\ faults' = faults + 1
                        /\ saved' = saved
               /\ objects' = ObjectsAfterResolve(objects,
                                                   GetAttr(apt_group, "id", "unknown_id"))
               /\ log' = Append(log, [file |-> filename, outcome |-> fault])
               /\ out' = Append(out,
                      CASE fault = "none" ->
                               Msg("saved", filename, saved, Len(intrusion_sets))
                        [] fault = "bundle" -> Msg("bundle_failed", filename, 0, 0)
                        [] OTHER -> Msg("write_failed", filename, 0, 0))
    /\ idx' = idx + 1
    /\ IF idx = Len(intrusion_sets)
       THEN pc' = "idle" /\ exitCode' = 0
       ELSE pc' = "extract" /\ exitCode' = exitCode
    /\ UNCHANGED <<raw, lastCmd, skipped, rep, loaded, listed, runs, canonBefore>>
    /\ UNCHANGED <<cli, stage, sideBySide>>

\* ------------------------------------------------------ Streaming Ingestor
\* an enumeration that does not leave the canonical file out
get_stix_files_all(dir, exclude_file) == {f \in DOMAIN dir : dir[f] # NoFile}

\* directory.glob("*.json") without the file named like exclude_file
get_stix_files(dir, exclude_file) ==
    {f \in DOMAIN dir : dir[f] # NoFile /\ f # exclude_file}

\* an ingestor that throws away what it read from a document that breaks off
load_stix_objects_streaming_strict(file) == IF file.ok THEN file.objs ELSE <<>>

\* the records ijson delivered before the document ended or broke off
load_stix_objects_streaming(file) == file.objs

\* what load_stix_objects_streaming prints for one file: the parse error, if
\* the document breaks off, and the number of objects it got
StreamMessages(f, file) ==
    (IF file.ok THEN <<>> ELSE <<Msg("stream_error", f, 0, 0)>>)
        \o <<Msg("found", f, Len(load_stix_objects_streaming(file)), 0)>>

RECURSIVE ReadAllMessages(_, _, _)
ReadAllMessages(dir, stix_files, k) ==
    IF k > Len(stix_files)
    THEN <<>>
    ELSE StreamMessages(stix_files[k], dir[stix_files[k]])
             \o ReadAllMessages(dir, stix_files, k + 1)

\* a reader that stops after the first candidate
ReadAllFirstOnly(dir, stix_files, k) ==
    IF stix_files = <<>> THEN <<>> ELSE load_stix_objects_streaming(dir[stix_files[1]])

\* all_objects: the records of every candidate, one file after the other
RECURSIVE ReadAll(_, _, _)
ReadAll(dir, stix_files, k) ==
    IF k > Len(stix_files)
    THEN <<>>
    ELSE load_stix_objects_streaming(dir[stix_files[k]]) \o ReadAll(dir, stix_files, k + 1)

\* ------------------------------------------------- Bundle Merger / Dedup
\* a merge in which a later occurrence of an id replaces the earlier one
RECURSIVE MergeDedupLastWins(_, _, _, _)
MergeDedupLastWins(all_objects, k, seen_ids, unique_objects) ==
    IF k > Len(all_objects)
    THEN unique_objects
    ELSE LET obj_id == all_objects[k].id
             Other(o) == o.id # obj_id
         IN  IF obj_id # Absent
             THEN MergeDedupLastWins(all_objects, k + 1, seen_ids \cup {obj_id},
                      Append(SelectSeq(unique_objects, Other), all_objects[k]))
             ELSE MergeDedupLastWins(all_objects, k + 1, seen_ids, unique_objects)

\* a merge that forgets the seen_ids test
MergeDedupKeepAll(all_objects, k, seen_ids, unique_objects) ==
    LET HasId(o) == o.id # Absent IN SelectSeq(all_objects, HasId)

\* a merge that puts every new survivor in front of the earlier ones
RECURSIVE MergeDedupPrepend(_, _, _, _)
MergeDedupPrepend(all_objects, k, seen_ids, unique_objects) ==
    IF k > Len(all_objects)
    THEN unique_objects
    ELSE LET obj_id == all_objects[k].id
         IN  IF obj_id # Absent /\ obj_id \notin seen_ids
             THEN MergeDedupPrepend(all_objects, k + 1, seen_ids \cup {obj_id},
                                    <<all_objects[k]>> \o unique_objects)
             ELSE MergeDedupPrepend(all_objects, k + 1, seen_ids, unique_objects)

\* a merge that takes the missing id for an id like any other
RECURSIVE MergeDedupAbsentAsId(_, _, _, _)
MergeDedupAbsentAsId(all_objects, k, seen_ids, unique_objects) ==
    IF k > Len(all_objects)
    THEN unique_objects
    ELSE LET obj_id == all_objects[k].id
         IN  IF obj_id \notin seen_ids
             THEN MergeDedupAbsentAsId(all_objects, k + 1, seen_ids \cup {obj_id},
                                       Append(unique_objects, all_objects[k]))
             ELSE MergeDedupAbsentAsId(all_objects, k + 1, seen_ids, unique_objects)

\* the seen_ids loop of merge_all_stix_files over raw dicts (obj.get("id"))
RECURSIVE MergeDedup(_, _, _, _)
MergeDedup(all_objects, k, seen_ids, unique_objects) ==
    IF k > Len(all_objects)
    THEN unique_objects
    ELSE LET obj_id == all_objects[k].id
         IN  IF obj_id # Absent /\ obj_id \notin seen_ids
             THEN MergeDedup(all_objects, k + 1, seen_ids \cup {obj_id},
                             Append(unique_objects, all_objects[k]))
             ELSE MergeDedup(all_objects, k + 1, seen_ids, unique_objects)

\* Bundle(objects=..., allow_custom=True) parses every dict it is given
BundleRaises(objs) == \E k \in DOMAIN objs : StixParse(objs[k]).status = "raise"

\* write_bundle: the file after the call, and whether an exception escaped
write_bundle(objs, old, bid, fault) ==
    IF BundleRaises(objs) \/ fault = "bundle"
    THEN [file |-> old, raised |-> TRUE, built |-> FALSE]
    ELSE IF fault = "open" THEN [file |-> old, raised |-> TRUE, built |-> TRUE]
    ELSE IF fault = "serialize"
    THEN [file |-> EmptyFile, raised |-> TRUE, built |-> TRUE]
    ELSE [file |-> [bid |-> bid, objs |-> Serialize(objs), ok |-> TRUE],
          raised |-> FALSE, built |-> TRUE]

\* a merge that rebundles even a single candidate
merge_always_rebundle(dir, stix_files, bid, fault) ==
    LET all_objects == ReadAll(dir, stix_files, 1)
        unique_objects == MergeDedup(all_objects, 1, {}, <<>>)
        w == write_bundle(unique_objects, dir[Canon], bid, fault)
    IN  IF stix_files = <<>>
        THEN [file |-> dir[Canon], raised |-> FALSE, built |-> FALSE, rep |-> NoRep,
              out |-> <<Msg("no_files", "", 0, 0)>>]
        ELSE [file |-> w.file, raised |-> w.raised, built |-> w.built,
              rep |-> [mode |-> IF w.raised THEN "failed" ELSE "bundle",
                       order |-> stix_files,
                       total |-> Len(all_objects), unique |-> Len(unique_objects)],
              out |-> ReadAllMessages(dir, stix_files, 1)
                        \o <<Msg("total", "", Len(all_objects), 0),
                             Msg("unique", "", Len(unique_objects), 0)>>
                        \o (IF w.raised THEN <<>> ELSE <<Msg("written", Canon, 0, 0)>>)]

\* a merge that writes a bundle even when it found no candidate
merge_writes_when_empty(dir, stix_files, bid, fault) ==
    IF stix_files = <<>>
    THEN LET w == write_bundle(<<>>, dir[Canon], bid, fault)
         IN  [file |-> w.file, raised |-> w.raised, built |-> w.built, rep |-> NoRep,
              out |-> <<Msg("no_files", "", 0, 0)>>]
    ELSE merge_always_rebundle(dir, stix_files, bid, fault)

\* merge_all_stix_files on the enumerated candidates: the canonical file after
\* the call, what was reported, and whether an exception escaped
merge_all_stix_files(dir, stix_files, bid, fault) ==
    LET all_objects == ReadAll(dir, stix_files, 1)
        unique_objects == MergeDedup(all_objects, 1, {}, <<>>)
        w == write_bundle(unique_objects, dir[Canon], bid, fault)
        read == ReadAllMessages(dir, stix_files, 1)
                    \o <<Msg("total", "", Len(all_objects), 0)>>
    IN  IF stix_files = <<>>
        THEN [file |-> dir[Canon], raised |-> FALSE, built |-> FALSE, rep |-> NoRep,
              out |-> <<Msg("no_files", "", 0, 0)>>]
        ELSE IF Len(stix_files) = 1
        THEN [file |-> IF fault = "none" THEN dir[stix_files[1]] ELSE dir[Canon],
              raised |-> fault # "none", built |-> FALSE,
              rep |-> [mode |-> IF fault = "none" THEN "copy" ELSE "failed",
                       order |-> stix_files,
                       total |-> Len(all_objects), unique |-> 0],
              out |-> read \o (IF fault = "none"
                                 THEN <<Msg("copied", stix_files[1], 0, 0)>> ELSE <<>>)]
        ELSE [file |-> w.file, raised |-> w.raised, built |-> w.built,
              rep |-> [mode |-> IF w.raised THEN "failed" ELSE "bundle",
                       order |-> stix_files,
                       total |-> Len(all_objects), unique |-> Len(unique_objects)],
              out |-> read \o <<Msg("unique", "", Len(unique_objects), 0)>>
                        \o (IF w.raised THEN <<>> ELSE <<Msg("written", Canon, 0, 0)>>)]

\* one call of merge_all_stix_files() on the raw directory
MergeRun ==
    /\ pc = "idle"
    /\ lastCmd' = "merge"
    /\ \E stix_files \in Perms(get_stix_files(raw, Canon)) :
       \E fault \in Faults :
        LET m == merge_all_stix_files(raw, stix_files, nextBid, fault)
        IN  /\ FaultOk(fault)
            /\ Len(stix_files) = 0 => fault = "none"
            /\ Len(stix_files) = 1 => fault \in {"none", "open"}
            /\ raw' = [raw EXCEPT ![Canon] = m.file]
            /\ rep' = m.rep
            /\ out' = m.out
            /\ canonBefore' = raw[Canon]
            /\ exitCode' = IF m.raised THEN 1 ELSE 0
            /\ nextBid' = IF m.built THEN nextBid + 1 ELSE nextBid
            /\ faults' = IF fault = "none" THEN faults ELSE faults + 1
    /\ UNCHANGED <<aptDir, pc, objects, skipped, idx, saved, log, loaded, listed>>

\* merge_all_stix_files() called on its own
MergeAll ==
    /\ stage = "none"
    /\ runs < MaxRuns
    /\ runs' = runs + 1
    /\ MergeRun
    /\ UNCHANGED <<cli, stage, sideBySide>>

\* ------------------------------------------ list_intrusion_sets (generators)
RECURSIVE ListLoop(_, _, _)
ListLoop(dir, files, k) ==
    IF k > Len(files)
    THEN <<>>
    ELSE LET objs == load_stix_objects(dir[files[k]])
             IsSet(o) == get_object_attribute(o, "type", "") = "intrusion-set"
             sets == SelectSeq(objs, IsSet)
         IN  [j \in DOMAIN sets |->
                 [name |-> IF sets[j].name # NoName THEN sets[j].name ELSE <<"unknown">>,
                  stix_id |-> get_object_attribute(sets[j], "id", ""),
                  file |-> files[k]]]
             \o ListLoop(dir, files, k + 1)

ListIntrusionSets ==
    /\ pc = "idle"
    /\ stage = "none"
    /\ runs < MaxRuns
    /\ runs' = runs + 1
    /\ lastCmd' = "list"
    /\ exitCode' = 0
    /\ \E files \in Perms(DOMAIN aptDir) :
        /\ loaded' = [f \in DOMAIN aptDir |-> load_stix_objects(aptDir[f])]
        /\ listed' = ListLoop(aptDir, files, 1)
    /\ out' = <<>>
    /\ UNCHANGED <<raw, aptDir, pc, objects, skipped, idx, saved, log, rep,
                   nextBid, faults, canonBefore>>
    /\ UNCHANGED <<cli, stage, sideBySide>>

\* ------------------------------------------------------------------ download
\* the file name is the last segment of config.STIX_URL; here the candidate
\* a.json stands for it
DownloadName == CandA

\* what the server answers: a bundle, or bytes that are not a JSON document
DownloadDocs ==
    {[bid |-> 0, objs |-> <<G1, A1, Rel("r1", "g1", "a1")>>, ok |-> TRUE],
     [bid |-> 0, objs |-> <<G1>>, ok |-> FALSE]}

\* download_all: the answer is written as it came; a requests.RequestException
\* (NoFile stands for it) is printed and swallowed
DownloadRun ==
    /\ pc = "idle"
    /\ lastCmd' = "download"
    /\ \E got \in DownloadDocs \cup {NoFile} :
        IF got = NoFile
        THEN /\ raw' = raw
             /\ out' = <<Msg("downloading", DownloadName, 0, 0),
                         Msg("download_failed", DownloadName, 0, 0)>>
        ELSE /\ raw' = [raw EXCEPT ![DownloadName] = got]
             /\ out' = <<Msg("downloading", DownloadName, 0, 0),
                         Msg("downloaded", DownloadName, 0, 0)>>
    /\ exitCode' = 0
    /\ UNCHANGED <<aptDir, pc, objects, skipped, idx, saved, log, rep, loaded,
                   listed, nextBid, faults, canonBefore>>

\* ------------------------------------------------------ main of lib/stix.py
\* the command lines tried: each command, one in capitals, one followed by a
\* second word, a word that is no command, and no word at all
Argvs ==
    {<<"download">>, <<"merge">>, <<"extract">>, <<"help">>, <<"MERGE">>,
     <<"extract", "merge">>, <<"list">>, <<>>}

\* str.lower() on the words above
Lower(word) == IF word = "MERGE" THEN "merge" ELSE word

\* a dispatcher that answers a word it does not know like help
DispatchLenient(argv) ==
    IF Len(argv) < 1
    THEN [op |-> "show_help", line |-> "no_command", code |-> 1]
    ELSE LET command == Lower(argv[1])
         IN  CASE command = "download" ->
                      [op |-> "download_all", line |-> "", code |-> 0]
               [] command = "merge" ->
                      [op |-> "merge_all_stix_files", line |-> "", code |-> 0]
               [] command = "extract" ->
                      [op |-> "extract_all_apts", line |-> "", code |-> 0]
               [] OTHER -> [op |-> "show_help", line |-> "", code |-> 0]

\* the if/elif chain of main: the operation called, the line printed before
\* the usage text, and the status main itself exits with
Dispatch(argv) ==
    IF Len(argv) < 1
    THEN [op |-> "show_help", line |-> "no_command", code |-> 1]
    ELSE LET command == Lower(argv[1])
         IN  CASE command = "download" ->
                      [op |-> "download_all", line |-> "", code |-> 0]
               [] command = "merge" ->
                      [op |-> "merge_all_stix_files", line |-> "", code |-> 0]
               [] command = "extract" ->
                      [op |-> "extract_all_apts", line |-> "", code |-> 0]
               [] command = "help" ->
                      [op |-> "show_help", line |-> "", code |-> 0]
               [] OTHER -> [op |-> "show_help", line |-> "unknown_command", code |-> 1]

\* show_help, after the line main printed before it; code is how main ends
ShowHelpRun(line, code) ==
    /\ pc = "idle"
    /\ lastCmd' = "help"
    /\ out' = (IF line = "" THEN <<>> ELSE <<Msg(line, "", 0, 0)>>)
                 \o <<Msg("usage", "", 0, 0)>>
    /\ exitCode' = code
    /\ UNCHANGED <<raw, aptDir, pc, objects, skipped, idx, saved, log, rep, loaded,
                   listed, nextBid, faults, canonBefore>>

\* python lib/stix.py <argv>
Main ==
    /\ stage = "none"
    /\ runs < MaxRuns
    /\ runs' = runs + 1
    /\ \E argv \in Argvs :
        LET d == Dispatch(argv)
        IN  /\ cli' = [argv |-> argv, ops |-> <<d.op>>]
            /\ CASE d.op = "download_all" -> DownloadRun
                 [] d.op = "merge_all_stix_files" -> MergeRun
                 [] d.op = "extract_all_apts" -> ExtractBegin
                 [] OTHER -> ShowHelpRun(d.line, d.code)
    /\ UNCHANGED <<stage, sideBySide>>

\* ------------------------------------------------- the init pipeline (main.py)
\* a pipeline that catches the exit of a stage and goes on
AfterStageContinue(next, code) == next

\* the init branch calls its stages one after the other with no try around
\* them: a stage that exits or raises ends the process
AfterStage(next, code) == IF code = 1 THEN "aborted" ELSE next

\* a stage of another module (ability, campaign, intrusionSet): it returns or
\* it raises
Collaborator(from, next) ==
    /\ stage = from
    /\ pc = "idle"
    /\ \E code \in {0, 1} :
        /\ exitCode' = code
        /\ stage' = AfterStage(next, code)
        /\ out' = IF stage' = "completed"
                  THEN Append(out, Msg("pipeline_completed", "", 0, 0))
                  ELSE out
    /\ UNCHANGED <<raw, aptDir, pc, lastCmd, objects, skipped, idx, saved, log,
                   rep, loaded, listed, nextBid, runs, faults, canonBefore, cli,
                   sideBySide>>

PipelineDownload ==
    /\ stage = "download"
    /\ DownloadRun
    /\ stage' = AfterStage("atomic", exitCode')
    /\ UNCHANGED <<runs, cli, sideBySide>>

PipelineAtomic == Collaborator("atomic", "merge")

PipelineMerge ==
    /\ stage = "merge"
    /\ MergeRun
    /\ stage' = AfterStage("extract", exitCode')
    /\ UNCHANGED <<runs, cli, sideBySide>>

\* extract_all_apts is entered; its loop goes on with ExtractGroup
PipelineExtract ==
    /\ stage = "extract"
    /\ ExtractBegin
    /\ stage' = AfterStage("extracting", exitCode')
    /\ UNCHANGED <<runs, cli, sideBySide>>

PipelineAbilities == Collaborator("extracting", "abilities")

\* the last stages, and after them the line that reports the success
PipelineAdversaries == Collaborator("abilities", "completed")

\* ------------------------------------------------------ runs side by side
\* Two processes started on the same directories.  A run is cut where it
\* touches a file: merge reads its candidates and builds the bundle, opens the
\* canonical file (which empties it) and writes the document; extract loads
\* the canonical file, and for every group opens the group's file and writes
\* the document.  A process can be killed between any two of these steps.
Procs == {1, 2}

NoProc(cmd) ==
    [cmd |-> cmd, pc |-> "start", doc |-> NoFile, before |-> NoFile, target |-> <<>>,
     objects |-> <<>>, idx |-> 1, saw |-> NoFile, exit |-> -1]

\* a write that returns before the document is in the file
write_text_unflushed(doc) == EmptyFile

\* f.write(bundle.serialize(pretty=True)) and the end of the with block: the
\* file holds the whole document
write_text(doc) == doc

\* the process is between its first step and its end
Busy(q) == procs[q].pc \notin {"start", "done", "killed"}

\* what a step of process p does to the bookkeeping of the runs
StepOf(p) ==
    /\ overlap' = (overlap \/ \E q \in Procs \ {p} : Busy(q))
    /\ UNCHANGED <<pc, lastCmd, exitCode, objects, skipped, idx, saved, log, rep,
                   loaded, listed, runs, faults, out, canonBefore, cli, stage,
                   globOrder>>

\* the candidates in the order in which the directory lists them
Listing(dir, order) ==
    LET IsCandidate(f) == f \in get_stix_files(dir, Canon)
    IN  SelectSeq(order, IsCandidate)

\* merge_all_stix_files up to the call of write_bundle or shutil.copy2
MergeRead(p) ==
    /\ procs[p].cmd = "merge" /\ procs[p].pc = "start"
    /\ LET stix_files == Listing(raw, globOrder)
           m == merge_all_stix_files(raw, stix_files, nextBid, "none")
       IN  /\ procs' = [procs EXCEPT ![p] =
                   IF stix_files = <<>>
                   THEN [@ EXCEPT !.pc = "done", !.exit = 0]
                   ELSE IF m.raised
                   THEN [@ EXCEPT !.pc = "done", !.exit = 1]
                   ELSE [@ EXCEPT !.pc = "built", !.doc = m.file]]
           /\ nextBid' = IF m.built THEN nextBid + 1 ELSE nextBid
    /\ UNCHANGED <<raw, aptDir>>
    /\ StepOf(p)

\* open(output_file, "w"), or the open of the destination in shutil.copy2
MergeOpen(p) ==
    /\ procs[p].cmd = "merge" /\ procs[p].pc = "built"
    /\ procs' = [procs EXCEPT ![p] = [@ EXCEPT !.pc = "opened", !.before = raw[Canon]]]
    /\ raw' = [raw EXCEPT ![Canon] = EmptyFile]
    /\ UNCHANGED <<aptDir, nextBid>>
    /\ StepOf(p)

MergeWrite(p) ==
    /\ procs[p].cmd = "merge" /\ procs[p].pc = "opened"
    /\ procs' = [procs EXCEPT ![p] = [@ EXCEPT !.pc = "done", !.exit = 0]]
    /\ raw' = [raw EXCEPT ![Canon] = write_text(procs[p].doc)]
    /\ UNCHANGED <<aptDir, nextBid>>
    /\ StepOf(p)

\* load_stix_data(config.STIX_FILE) and the search for the groups
ExtractLoad(p) ==
    /\ procs[p].cmd = "extract" /\ procs[p].pc = "start"
    /\ LET r == load_stix_data(raw[Canon])
           sets == SelectSeq(r.parsed, IsIntrusionSet)
       IN  procs' = [procs EXCEPT ![p] =
               IF r.fatal
               THEN [@ EXCEPT !.pc = "done", !.exit = 1, !.saw = raw[Canon]]
               ELSE IF sets = <<>>
               THEN [@ EXCEPT !.pc = "done", !.exit = 0, !.saw = raw[Canon]]
               ELSE [@ EXCEPT !.pc = "group", !.saw = raw[Canon],
                              !.objects = r.parsed, !.idx = 1]]
    /\ UNCHANGED <<raw, aptDir, nextBid>>
    /\ StepOf(p)

\* one group: the bundle is built and its file is opened
ExtractOpen(p) ==
    /\ procs[p].cmd = "extract" /\ procs[p].pc = "group"
    /\ LET sets == SelectSeq(procs[p].objects, IsIntrusionSet)
           apt_group == sets[procs[p].idx]
           filename == GroupFile(apt_group)
           unique_objects == UniqueObjects(procs[p].objects, apt_group)
       IN  /\ procs' = [procs EXCEPT ![p] =
                   [@ EXCEPT !.pc = "opened", !.target = filename,
                             !.before = IF filename \in DOMAIN aptDir
                                        THEN aptDir[filename] ELSE NoFile,
                             !.doc = [bid |-> nextBid,
                                      objs |-> Serialize(unique_objects),
                                      ok |-> TRUE]]]
           /\ aptDir' = WriteFile(aptDir, filename, EmptyFile)
    /\ nextBid' = nextBid + 1
    /\ UNCHANGED raw
    /\ StepOf(p)

ExtractWrite(p) ==
    /\ procs[p].cmd = "extract" /\ procs[p].pc = "opened"
    /\ LET sets == SelectSeq(procs[p].objects, IsIntrusionSet)
       IN  procs' = [procs EXCEPT ![p] =
               IF procs[p].idx = Len(sets)
               THEN [@ EXCEPT !.pc = "done", !.exit = 0]
               ELSE [@ EXCEPT !.pc = "group", !.idx = @ + 1]]
    /\ aptDir' = WriteFile(aptDir, procs[p].target, write_text(procs[p].doc))
    /\ UNCHANGED <<raw, nextBid>>
    /\ StepOf(p)

\* the process is killed where it stands
Terminate(p) ==
    /\ Busy(p)
    /\ procs' = [procs EXCEPT ![p] = [@ EXCEPT !.pc = "killed", !.exit = 137]]
    /\ UNCHANGED <<raw, aptDir, nextBid>>
    /\ StepOf(p)

\* ------------------------------------------------------------ initial states
LegacyName == <<<<"old">>, "g0">>

LegacyFile == [bid |-> 0, objs |-> <<GBad, RBad, G1>>, ok |-> TRUE]

CandFile == [bid |-> 0, objs |-> <<A1>>, ok |-> TRUE]

Corpora == SeqsUpTo(CorpusObjs, MaxObjs) \cup ScenarioCorpora

InitCounters ==
    /\ pc = "idle"
    /\ lastCmd = "none"
    /\ exitCode = 0
    /\ objects = <<>>
    /\ skipped = 0
    /\ idx = 1
    /\ saved = 1
    /\ log = <<>>
    /\ rep = NoRep
    /\ loaded = <<>>
    /\ listed = <<>>
    /\ nextBid = 1
    /\ runs = 0
    /\ faults = 0
    /\ out = <<>>

InitCommon == InitCounters /\ canonBefore = NoFile

NoCli == [argv |-> <<>>, ops |-> <<>>]

\* a function or a command of lib/stix.py is run on its own: no pipeline, no
\* second run beside it
InitAlone ==
    /\ cli = NoCli
    /\ stage = "none"
    /\ procs = <<>>
    /\ globOrder = <<>>
    /\ overlap = FALSE

\* a canonical corpus (or a zero-byte file) is already there, one candidate
\* beside it, and an older per-group file in the adversary directory
InitExtract ==
    /\ \E c \in {[bid |-> 0, objs |-> o, ok |-> TRUE] : o \in Corpora} \cup {EmptyFile} :
        raw = [f \in RawNames |->
                 IF f = Canon THEN c ELSE IF f = CandA THEN CandFile ELSE NoFile]
    /\ aptDir = [f \in {LegacyName} |-> LegacyFile]

\* a canonical file left by an earlier merge
OldCanon == [bid |-> 0, objs |-> <<G2, A2>>, ok |-> TRUE]

\* the candidate files beside which an older canonical file is tried: none,
\* one, and the two of the merge scenario
WithOldCanon == {<<<<>>, <<>>>>, <<<<G1, G1b>>, <<>>>>, ScenarioMerge}

\* no canonical file yet, or an older one; candidate files of every shape
MergeInputs ==
    (SeqsUpTo(MergeObjs, MaxFileLen) \X SeqsUpTo(MergeObjs, MaxFileLen))
        \cup {ScenarioMerge} \cup RaisingMerge \cup NoIdMerge

InitMerge ==
    /\ \E in \in MergeInputs, aok \in BOOLEAN, ae \in BOOLEAN, be \in BOOLEAN,
          c \in {NoFile, OldCanon} :
       LET a == in[1]
           b == in[2]
       IN
        /\ ~ae => (a = <<>> /\ ~aok)
        /\ c = OldCanon => in \in WithOldCanon
        /\ ~be => b = <<>>
        /\ raw = [f \in RawNames |->
                   IF f = Canon THEN c
                   ELSE IF f = CandA
                        THEN IF ae THEN [bid |-> 0, objs |-> a, ok |-> aok] ELSE NoFile
                        ELSE IF be THEN [bid |-> 0, objs |-> b, ok |-> TRUE] ELSE NoFile]
    /\ aptDir = <<>>

Init == InitCommon /\ InitAlone /\ (InitExtract \/ InitMerge)

Next == ExtractStart \/ ExtractGroup \/ MergeAll \/ ListIntrusionSets

Spec == Init /\ [][Next]_vars

\* the commands run on a raw directory that holds a canonical corpus
InitWithCorpus == InitCommon /\ InitAlone /\ InitExtract

SpecExtract == InitWithCorpus /\ [][Next]_vars

\* the commands run on a raw directory of candidate files
InitWithCandidates == InitCommon /\ InitAlone /\ InitMerge

SpecMerge == InitWithCandidates /\ [][Next]_vars

\* the raw directory before "main.py init": empty, an older canonical file
\* alone, the two candidates of the merge scenario, one candidate that breaks
\* off
PipelineDirs ==
    {[f \in RawNames |-> NoFile],
     [f \in RawNames |-> IF f = Canon THEN OldCanon ELSE NoFile],
     [f \in RawNames |->
         IF f = Canon THEN NoFile
         ELSE [bid |-> 0, objs |-> ScenarioMerge[IF f = CandA THEN 1 ELSE 2],
               ok |-> TRUE]],
     [f \in RawNames |->
         IF f = CandB THEN [bid |-> 0, objs |-> <<G2>>, ok |-> FALSE] ELSE NoFile]}

InitPipeline ==
    /\ InitCommon
    /\ cli = [argv |-> <<"init">>, ops |-> <<>>]
    /\ stage = "download"
    /\ procs = <<>>
    /\ globOrder = <<>>
    /\ overlap = FALSE
    /\ raw \in PipelineDirs
    /\ aptDir = <<>>

NextPipeline ==
    \/ PipelineDownload
    \/ PipelineAtomic
    \/ PipelineMerge
    \/ PipelineExtract
    \/ ExtractGroup
    \/ PipelineAbilities
    \/ PipelineAdversaries

\* python main.py init
SpecPipeline == InitPipeline /\ [][NextPipeline]_vars

\* the raw directories the two runs are started on: the two candidates of the
\* merge scenario with and without an older canonical file, one candidate that
\* holds an id twice, and no candidate beside an older canonical file
SideBySideDirs ==
    {[f \in RawNames |->
         IF f = Canon THEN c
         ELSE [bid |-> 0, objs |-> ScenarioMerge[IF f = CandA THEN 1 ELSE 2],
               ok |-> TRUE]] : c \in {NoFile, OldCanon}}
    \cup {[f \in RawNames |->
              IF f = CandA THEN [bid |-> 0, objs |-> <<G1, G1b>>, ok |-> TRUE]
              ELSE NoFile],
          [f \in RawNames |-> IF f = Canon THEN OldCanon ELSE NoFile]}

InitSideBySide ==
    /\ InitCounters
    /\ cli = NoCli
    /\ stage = "none"
    /\ raw \in SideBySideDirs
    /\ aptDir = <<>>
    /\ canonBefore = raw[Canon]
    /\ procs \in {[p \in Procs |-> NoProc(c[p])] : c \in [Procs -> {"merge", "extract"}]}
    /\ globOrder \in Perms(RawNames)
    /\ overlap = FALSE

NextSideBySide ==
    \E p \in Procs :
        \/ MergeRead(p)
        \/ MergeOpen(p)
        \/ MergeWrite(p)
        \/ ExtractLoad(p)
        \/ ExtractOpen(p)
        \/ ExtractWrite(p)
        \/ Terminate(p)

\* two commands of lib/stix.py started on the same directories
SpecSideBySide == InitSideBySide /\ [][NextSideBySide]_vars

\* the directories the command line is tried on: the raw directories of the
\* side-by-side runs, and the longer corpora as canonical file beside one
\* candidate
CliDirs ==
    SideBySideDirs
    \cup {[f \in RawNames |->
              IF f = Canon THEN [bid |-> 0, objs |-> o, ok |-> TRUE]
              ELSE IF f = CandA THEN CandFile ELSE NoFile] : o \in ScenarioCorpora}

InitCli ==
    /\ InitCommon
    /\ InitAlone
    /\ raw \in CliDirs
    /\ aptDir = [f \in {LegacyName} |-> LegacyFile]

NextCli == Main \/ ExtractGroup

\* the commands of lib/stix.py run from the command line
SpecCli == InitCli /\ [][NextCli]_vars

\* =================================================================== claims
UniqueIds(objs) == \A i, j \in DOMAIN objs : i # j => objs[i].id # objs[j].id

\* the candidates' objects in file enumeration order, then document order
RECURSIVE CandidateObjects(_)
CandidateObjects(order) ==
    IF order = <<>> THEN <<>>
    ELSE raw[Head(order)].objs \o CandidateObjects(Tail(order))

PresentCandidates == {f \in Candidates : raw[f] # NoFile}

MergedBundleWritten == lastCmd = "merge" /\ rep.mode = "bundle"

\* C1: after a merge of two or more candidates, every id read from them is the
\* id of exactly one object of the canonical bundle, and that object is the
\* first occurrence of the id in enumeration order, then document order.
C1_FirstOccurrenceWins ==
    MergedBundleWritten =>
        LET read == CandidateObjects(rep.order)
            merged == raw[Canon].objs
            ids == {read[k].id : k \in DOMAIN read} \ {Absent}
            FirstAt(x) == CHOOSE k \in DOMAIN read :
                             read[k].id = x /\ \A j \in 1..(k - 1) : read[j].id # x
        IN  \A x \in ids :
                /\ Cardinality({k \in DOMAIN merged : merged[k].id = x}) = 1
                /\ \E k \in DOMAIN merged : merged[k] = read[FirstAt(x)]

\* an id carried by both candidates with different field values was merged
C1_Witness ==
    /\ MergedBundleWritten
    /\ Len(rep.order) = 2
    /\ \E i \in DOMAIN raw[rep.order[1]].objs, j \in DOMAIN raw[rep.order[2]].objs :
          /\ raw[rep.order[1]].objs[i].id = raw[rep.order[2]].objs[j].id
          /\ raw[rep.order[1]].objs[i].id # Absent
          /\ raw[rep.order[1]].objs[i] # raw[rep.order[2]].objs[j]

\* the per-group bundles written by extract carry a fresh bundle id
AptBundlesUnique ==
    \A f \in DOMAIN aptDir : aptDir[f].bid > 0 => UniqueIds(aptDir[f].objs)

\* C2 as stated: no bundle the engine produces holds two objects with the same
\* id, the canonical file copied from a single candidate included.
C2_Original ==
    /\ AptBundlesUnique
    /\ (lastCmd = "merge" /\ rep.mode \in {"copy", "bundle"})
          => UniqueIds(raw[Canon].objs)

\* C2 amended: no bundle the engine builds (a per-group bundle, or the canonical
\* bundle of a merge of two or more candidates) holds two objects with the same
\* id; a canonical file copied from a single candidate is that candidate as is.
C2_BuiltBundlesUnique ==
    /\ AptBundlesUnique
    /\ raw[Canon].bid > 0 => UniqueIds(raw[Canon].objs)

\* a bundle was merged from a candidate that repeats an id
C2_Witness ==
    /\ MergedBundleWritten
    /\ \E f \in PresentCandidates : ~UniqueIds(raw[f].objs)

\* C3: with exactly one candidate, the canonical file after a completed merge
\* is that candidate, byte for byte, whatever it contains.
C3_MergeIdentity ==
    (lastCmd = "merge" /\ exitCode = 0 /\ Cardinality(PresentCandidates) = 1) =>
        \A f \in PresentCandidates : raw[Canon] = raw[f]

\* a single candidate that repeats an id, or is malformed, was merged
C3_Witness ==
    /\ lastCmd = "merge"
    /\ exitCode = 0
    /\ Cardinality(PresentCandidates) = 1
    /\ \E f \in PresentCandidates :
          /\ ~UniqueIds(raw[f].objs)
          /\ ~raw[f].ok


\* ------------------------------------------------------------- extraction
Untyped(o) == [o EXCEPT !.typed = FALSE]

\* the last iteration of the extract loop wrote its group's bundle
JustSaved == lastCmd = "extract" /\ log # <<>> /\ log[Len(log)].outcome = "none"

LastGroup == intrusion_sets[Len(log)]

LastBundle == aptDir[log[Len(log)].file].objs

HasId(b, id) == \E k \in DOMAIN b : b[k].id = id

Holds(b, o) == \E k \in DOMAIN b : b[k] = Untyped(o)

IdUnique(o) == Cardinality({k \in DOMAIN objects : objects[k].id = o.id}) = 1

\* relationship r joins the group g and the object o, in either direction
Joins(r, g, o) ==
    /\ r.type = "relationship"
    /\ \/ r.source_ref = g.id /\ r.target_ref = o.id
       \/ r.target_ref = g.id /\ r.source_ref = o.id

\* C4: for a relationship R between the extracted group and a corpus object O,
\* whichever of the two is source_ref, the group's bundle holds R and O (the
\* objects themselves when their ids are not repeated in the corpus).
C4_Symmetry ==
    JustSaved =>
        \A r \in SeqRange(objects), o \in SeqRange(objects) :
            Joins(r, LastGroup, o) =>
                /\ HasId(LastBundle, r.id)
                /\ HasId(LastBundle, o.id)
                /\ IdUnique(r) => Holds(LastBundle, r)
                /\ IdUnique(o) => Holds(LastBundle, o)

\* a group that is the target_ref of a relationship from another group
C4_Witness ==
    /\ JustSaved
    /\ \E r \in SeqRange(objects), o \in SeqRange(objects) :
          /\ r.type = "relationship"
          /\ r.target_ref = LastGroup.id
          /\ r.source_ref = o.id
          /\ o.id # LastGroup.id
          /\ o.type = "intrusion-set"
          /\ IdUnique(r)
          /\ IdUnique(o)
          /\ Holds(LastBundle, o)

\* the elements of s whose id no earlier element has, in the order of s
KeepFirstById(s) ==
    LET keep == {i \in DOMAIN s :
                    s[i].id # Absent /\ \A j \in 1..(i - 1) : s[j].id # s[i].id}
        Nth(n) == CHOOSE i \in keep : Cardinality({j \in keep : j < i}) = n - 1
    IN  [n \in 1..Cardinality(keep) |-> s[Nth(n)]]

ResolvedAssembly(g) ==
    LET r == get_related_objects(objects, g.id)
    IN  <<g>> \o r.relationships \o r.targets

BundleIds(b) == [k \in DOMAIN b |-> b[k].id]

\* C5: a group's bundle is the keep-first deduplication by id of the group,
\* then the resolver's relationships, then the resolver's related objects; the
\* group comes first, and the scenario corpus gives IS-1, R1, R2, AP-1, AP-2.
C5_BundleIsDedupedAssembly ==
    JustSaved =>
        LET kept == KeepFirstById(ResolvedAssembly(LastGroup))
        IN  /\ LastBundle = [k \in DOMAIN kept |-> Untyped(kept[k])]
            /\ LastBundle[1] = Untyped(LastGroup)
            /\ raw[Canon].objs = ScenarioCorpus
                  => BundleIds(LastBundle) = <<"g1", "r1", "r2", "a1", "a2">>

\* the scenario corpus was extracted
C5_Witness ==
    /\ JustSaved
    /\ raw[Canon].objs = ScenarioCorpus
    /\ Len(LastBundle) = 5

\* the corpus relationships that join the group g and the object o
JoinCount(g, o) == Cardinality({k \in DOMAIN objects : Joins(objects[k], g, o)})

ReachedTwice(g, o) ==
    JoinCount(g, o) >= 2 \/ (o.id = g.id /\ JoinCount(g, o) >= 1)

\* C6: an object reached from the group through two relationships, or through
\* a relationship from the group to itself, is in the group's bundle exactly
\* once, at the place of its first occurrence in assembly order.
C6_ReachedTwiceKeptOnce ==
    JustSaved =>
        LET asm == ResolvedAssembly(LastGroup)
            b == LastBundle
        IN  \A o \in SeqRange(objects) :
                ReachedTwice(LastGroup, o) =>
                    LET first == CHOOSE i \in DOMAIN asm :
                                    asm[i].id = o.id
                                    /\ \A j \in 1..(i - 1) : asm[j].id # o.id
                        place == Cardinality({asm[j].id : j \in 1..first})
                    IN  /\ Cardinality({k \in DOMAIN b : b[k].id = o.id}) = 1
                        /\ place \in DOMAIN b
                        /\ b[place] = Untyped(asm[first])

\* an object that is both a target and a reverse source of the group
C6_Witness ==
    /\ JustSaved
    /\ \E o \in SeqRange(objects), r1 \in SeqRange(objects), r2 \in SeqRange(objects) :
          /\ o.id # LastGroup.id
          /\ r1.type = "relationship" /\ r2.type = "relationship"
          /\ r1.source_ref = LastGroup.id /\ r1.target_ref = o.id
          /\ r2.target_ref = LastGroup.id /\ r2.source_ref = o.id
          /\ Holds(LastBundle, o)

\* ------------------------------------------------------------------ loader
Unloadable(file) == file = NoFile \/ ~file.ok

\* C7: an extract started on a missing or invalid canonical file ends the
\* process with exit status 1, holding no object list, and writes no file.
C7_FatalLoad ==
    [][(pc = "idle" /\ lastCmd' = "extract" /\ runs' = runs + 1
          /\ Unloadable(raw[Canon]))
        => (/\ exitCode' = 1
            /\ pc' = "idle"
            /\ objects' = <<>>
            /\ log' = <<>>
            /\ aptDir' = aptDir)]_vars

\* extract met a canonical file that is there but is not valid JSON, with an
\* older per-group file in the adversary directory
C7_Witness ==
    /\ lastCmd = "extract"
    /\ exitCode = 1
    /\ raw[Canon] # NoFile
    /\ ~raw[Canon].ok
    /\ DOMAIN aptDir # {}

\* extract loaded the canonical file
Loaded == lastCmd = "extract" /\ exitCode # 1

Parsable(o) == o.parse = "ok"

Typed(o) == [o EXCEPT !.typed = TRUE]

\* C8: the loader returns the parsable objects in input order, counts every
\* other object once, goes on after a failure, and returned + skipped = N.
C8_SkipAndCount ==
    Loaded =>
        LET raws == raw[Canon].objs
            good == SelectSeq(raws, Parsable)
        IN  /\ objects = [k \in DOMAIN good |-> Typed(good[k])]
            /\ skipped = Cardinality({k \in DOMAIN raws : ~Parsable(raws[k])})
            /\ Len(objects) + skipped = Len(raws)

\* one unparsable object, followed by parsable ones
C8_Witness ==
    /\ Loaded
    /\ skipped = 1
    /\ Len(objects) >= 2
    /\ ~Parsable(raw[Canon].objs[1])

\* C9 as stated: an attack-pattern, campaign or intrusion-set that fails strict
\* parsing is kept by the Object Loader as its raw property bag.
C9_Original ==
    Loaded =>
        \A k \in DOMAIN raw[Canon].objs :
            LET o == raw[Canon].objs[k]
            IN  (o.parse = "raise" /\ o.type \in FallbackTypes)
                    => \E j \in DOMAIN objects : objects[j] = o

\* C9 amended: load_stix_data skips and counts every object that fails strict
\* parsing, whatever its type; load_stix_objects of the generators keeps a
\* failing attack-pattern, campaign or intrusion-set as its raw property bag
\* and drops a failing object of any other type.
C9_FallbackOnlyInGenerators ==
    /\ Loaded =>
          /\ \A j \in DOMAIN objects : objects[j].parse = "ok" /\ objects[j].typed
          /\ skipped >= Cardinality({k \in DOMAIN raw[Canon].objs :
                                        raw[Canon].objs[k].parse = "raise"})
    /\ lastCmd = "list" =>
          \A f \in DOMAIN aptDir : \A k \in DOMAIN aptDir[f].objs :
              LET o == aptDir[f].objs[k]
              IN  o.parse = "raise" =>
                      (o.type \in FallbackTypes
                          <=> \E j \in DOMAIN loaded[f] : loaded[f][j] = o)

\* extract loaded a corpus holding an intrusion-set that fails strict parsing
C9_Witness ==
    /\ Loaded
    /\ \E k \in DOMAIN raw[Canon].objs :
          /\ raw[Canon].objs[k].parse = "raise"
          /\ raw[Canon].objs[k].type = "intrusion-set"
    /\ skipped >= 1

\* C10 as stated: an iteration whose bundle construction or serialization
\* fails produces no file and the loop goes on; an iteration that succeeds
\* writes its group's file, with the contents it has without any failure, and
\* touches no other file.
C10_FailureIsolation ==
    [][pc = "extract" =>
         LET g == intrusion_sets[idx]
             e == log'[Len(log')]
             kept == KeepFirstById(ResolvedAssembly(g))
         IN  /\ idx' = idx + 1
             /\ e.outcome \in {"bundle", "serialize"} => aptDir' = aptDir
             /\ e.outcome = "none" =>
                   /\ DOMAIN aptDir' = DOMAIN aptDir \cup {GroupFile(g)}
                   /\ aptDir'[GroupFile(g)].objs = [k \in DOMAIN kept |-> Untyped(kept[k])]
                   /\ \A f \in DOMAIN aptDir \ {GroupFile(g)} : aptDir'[f] = aptDir[f]]_vars

\* ------------------------------------------------------------ output files
\* an extract run went through every group without a build or write failure
CleanRun ==
    /\ lastCmd = "extract"
    /\ pc = "idle"
    /\ exitCode = 0
    /\ log # <<>>
    /\ \A k \in DOMAIN log : log[k].outcome = "none"

\* the group's name with every space and every '/' replaced by '_'
SanitizedName(g) ==
    [k \in DOMAIN g.name |-> IF g.name[k] = " " \/ g.name[k] = "/" THEN "_" ELSE g.name[k]]

\* the k-th group's file is there, written by the engine, and named after it
FileOfGroup(k) ==
    /\ log[k].file = <<SanitizedName(intrusion_sets[k]), intrusion_sets[k].id>>
    /\ log[k].file \in DOMAIN aptDir
    /\ aptDir[log[k].file].ok
    /\ aptDir[log[k].file].bid > 0
    /\ aptDir[log[k].file].objs # <<>>
    /\ aptDir[log[k].file].objs[1].id = intrusion_sets[k].id

\* C11 as stated: a run without failure writes one file per intrusion-set
\* object, named <sanitized name>_<group id>.json, and two different
\* intrusion-sets never write to the same file name.
C11_Original ==
    CleanRun =>
        /\ \A k \in DOMAIN log : FileOfGroup(k)
        /\ \A i, j \in DOMAIN log :
              intrusion_sets[i] # intrusion_sets[j] => log[i].file # log[j].file

\* C11 amended: a run without failure writes, for every intrusion-set object,
\* the file <sanitized name>_<group id>.json; two intrusion-sets write the same
\* file exactly when they have the same id and the same sanitized name, the
\* later one replacing the earlier, so the run leaves one file per distinct
\* pair of sanitized name and id.
C11_OneFilePerNameAndId ==
    CleanRun =>
        /\ Len(log) = Len(intrusion_sets)
        /\ \A k \in DOMAIN log : FileOfGroup(k)
        /\ \A i, j \in DOMAIN log :
              log[i].file = log[j].file
                 <=> /\ intrusion_sets[i].id = intrusion_sets[j].id
                     /\ SanitizedName(intrusion_sets[i]) = SanitizedName(intrusion_sets[j])
        /\ Cardinality({log[k].file : k \in DOMAIN log})
              = Cardinality({<<SanitizedName(intrusion_sets[k]), intrusion_sets[k].id>> :
                                k \in DOMAIN intrusion_sets})
        /\ \A i, j \in DOMAIN log :
              (i < j /\ log[i].file = log[j].file /\ \A m \in (j + 1)..Len(log) :
                                                        log[m].file # log[j].file)
                 => aptDir[log[j].file].objs[1] = Untyped(intrusion_sets[j])

\* two groups, one with a space and one with a '/' in its name, got a file each
C11_Witness ==
    /\ CleanRun
    /\ Len(log) = 2
    /\ log[1].file # log[2].file
    /\ \E k \in DOMAIN intrusion_sets[1].name : intrusion_sets[1].name[k] = " "
    /\ \E k \in DOMAIN intrusion_sets[2].name : intrusion_sets[2].name[k] = "/"
    /\ Cardinality({f \in DOMAIN aptDir : aptDir[f].bid > 0}) = 2

\* the last line printed on the console
LastLine == out[Len(out)]

\* C12: an extract that loads a corpus without any intrusion-set object says
\* so, returns normally (exit status 0) and writes no bundle file.
C12_NoGroupsNoFiles ==
    [][(/\ pc = "idle" /\ lastCmd' = "extract" /\ runs' = runs + 1
        /\ ~Unloadable(raw[Canon])
        /\ \A k \in DOMAIN objects' : objects'[k].type # "intrusion-set")
        => (/\ pc' = "idle"
            /\ exitCode' = 0
            /\ out'[Len(out')].text = "no_intrusion_sets"
            /\ \A k \in DOMAIN out' : out'[k].text \notin {"saved", "found"}
            /\ log' = <<>>
            /\ aptDir' = aptDir)]_vars

\* extract loaded other objects, skipped an intrusion-set that does not parse,
\* and found no group
C12_Witness ==
    /\ lastCmd = "extract"
    /\ pc = "idle"
    /\ exitCode = 0
    /\ objects # <<>>
    /\ \A k \in DOMAIN objects : objects[k].type # "intrusion-set"
    /\ \E k \in DOMAIN raw[Canon].objs : raw[Canon].objs[k].type = "intrusion-set"
    /\ LastLine.text = "no_intrusion_sets"
    /\ DOMAIN aptDir = {LegacyName}

\* --------------------------------------------------------- stream errors
\* a merge of two or more candidates, one of which breaks off partway
BrokenMerge ==
    /\ lastCmd = "merge"
    /\ Len(rep.order) >= 2
    /\ \E f \in SeqRange(rep.order) : ~raw[f].ok

\* the lines printed about the file f, in the order they were printed
LinesAbout(f) ==
    LET About(l) == l.text \in {"stream_error", "found"} /\ l.arg = f
    IN  SelectSeq(out, About)

RECURSIVE SumLen(_)
SumLen(order) ==
    IF order = <<>> THEN 0 ELSE Len(raw[Head(order)].objs) + SumLen(Tail(order))

\* C13: when a candidate breaks off partway, the ingestor returns the records
\* read before that point, the error is printed for that file and no other,
\* every other candidate is still read, and the records of all candidates,
\* those of the broken one included, go through deduplication into the
\* canonical bundle.
C13_StreamErrorKeepsPrefix ==
    BrokenMerge =>
        /\ \A f \in SeqRange(rep.order) :
              LinesAbout(f) =
                  IF raw[f].ok
                  THEN <<Msg("found", f, Len(raw[f].objs), 0)>>
                  ELSE <<Msg("stream_error", f, 0, 0),
                         Msg("found", f, Len(raw[f].objs), 0)>>
        /\ rep.total = SumLen(rep.order)
        /\ \E k \in DOMAIN out : out[k] = Msg("total", "", SumLen(rep.order), 0)
        /\ (faults = 0 /\ ~BundleRaises(KeepFirstById(CandidateObjects(rep.order))))
              => (rep.mode = "bundle" /\ exitCode = 0)
        /\ rep.mode = "bundle"
              => raw[Canon].objs = KeepFirstById(CandidateObjects(rep.order))

\* a candidate that breaks off after its first records was merged with a
\* well-formed one that repeats one of its ids
C13_Witness ==
    /\ BrokenMerge
    /\ rep.mode = "bundle"
    /\ \E f \in SeqRange(rep.order), g \in SeqRange(rep.order) :
          /\ ~raw[f].ok /\ raw[g].ok
          /\ Len(raw[f].objs) >= 1 /\ Len(raw[g].objs) = 2
          /\ \E i \in DOMAIN raw[f].objs, j \in DOMAIN raw[g].objs :
                raw[f].objs[i].id = raw[g].objs[j].id /\ raw[f].objs[i].id # Absent
          /\ \E j \in DOMAIN raw[g].objs :
                \A i \in DOMAIN raw[f].objs : raw[f].objs[i].id # raw[g].objs[j].id
          /\ \A i \in DOMAIN raw[f].objs :
                \E k \in DOMAIN raw[Canon].objs : raw[Canon].objs[k].id = raw[f].objs[i].id

\* ------------------------------------------------------ canonical exclusion
\* the *.json files of the raw directory other than the canonical file
OtherFiles == {f \in RawNames \ {Canon} : raw[f] # NoFile}

ObjectsOf(files) == UNION {SeqRange(raw[f].objs) : f \in files}

\* C14: merge reads every file of the raw directory except the canonical one;
\* the canonical file left by an earlier run is not counted when merge tests
\* for a single candidate, and none of its objects reaches the new canonical
\* bundle unless a candidate holds it too.
C14_CanonicalNotAnInput ==
    lastCmd = "merge" =>
        /\ SeqRange(rep.order) = OtherFiles
        /\ Len(rep.order) = Cardinality(OtherFiles)
        /\ rep.total = SumLen(rep.order)
        /\ \A k \in DOMAIN out : out[k].arg # Canon \/ out[k].text = "written"
        /\ OtherFiles = {} => (rep.mode = "none" /\ raw[Canon] = canonBefore)
        /\ Cardinality(OtherFiles) = 1 => rep.mode \in {"copy", "failed"}
        /\ Cardinality(OtherFiles) >= 2 => rep.mode \in {"bundle", "failed"}
        /\ rep.mode = "copy" => \A f \in OtherFiles : raw[Canon] = raw[f]
        /\ rep.mode = "bundle" => SeqRange(raw[Canon].objs) \subseteq ObjectsOf(OtherFiles)

\* a merge of two candidates replaced an older canonical file that held an
\* object no candidate holds
C14_Witness ==
    /\ lastCmd = "merge"
    /\ rep.mode = "bundle"
    /\ canonBefore # NoFile
    /\ Cardinality(OtherFiles) = 2
    /\ \E k \in DOMAIN canonBefore.objs :
          /\ canonBefore.objs[k] \notin ObjectsOf(OtherFiles)
          /\ \A j \in DOMAIN raw[Canon].objs : raw[Canon].objs[j].id # canonBefore.objs[k].id

\* ------------------------------------------------------------ merge order
\* the place in s of the first element whose id is x
FirstPlace(s, x) ==
    CHOOSE k \in DOMAIN s : s[k].id = x /\ \A j \in 1..(k - 1) : s[j].id # x

\* C15: the objects of a canonical bundle merged from two or more candidates
\* stand in first-seen order: each is a record read from the candidates, and
\* one stands before another exactly when its id was first read earlier, in
\* file enumeration order and then document order (X, Y and Y, Z give X, Y, Z).
C15_FirstSeenOrder ==
    MergedBundleWritten =>
        LET read == CandidateObjects(rep.order)
            merged == raw[Canon].objs
        IN  /\ \A k \in DOMAIN merged :
                  \E i \in DOMAIN read : read[i] = merged[k]
            /\ \A k, l \in DOMAIN merged :
                  k < l <=> FirstPlace(read, merged[k].id) < FirstPlace(read, merged[l].id)
            /\ (/\ raw[rep.order[1]].objs = ScenarioMerge[1]
                /\ raw[rep.order[2]].objs = ScenarioMerge[2])
                  => merged = <<G1, A1, G2>>

\* the two candidate files of the merge scenario were merged in that order
C15_Witness ==
    /\ MergedBundleWritten
    /\ Len(rep.order) = 2
    /\ raw[rep.order[1]].objs = ScenarioMerge[1]
    /\ raw[rep.order[2]].objs = ScenarioMerge[2]
    /\ Len(raw[Canon].objs) = 3

\* ------------------------------------------------------------ merge counts
\* the numbers printed under the heading text, in the order they were printed
Printed(text) ==
    LET Is(l) == l.text = text
        lines == SelectSeq(out, Is)
    IN  [k \in DOMAIN lines |-> lines[k].n]

\* a merge of two or more candidates got as far as the deduplication
Deduplicated == lastCmd = "merge" /\ Len(rep.order) >= 2

\* the records of s that are dropped: a later occurrence of an id, or no id
Dropped(s) ==
    {k \in DOMAIN s : s[k].id = Absent \/ \E j \in 1..(k - 1) : s[j].id = s[k].id}

Resolved == lastCmd = "extract" /\ log # <<>>

Resolution == get_related_objects(objects, LastGroup.id)

Forward(o) == o.type = "relationship" /\ o.source_ref = LastGroup.id

Reverse(o) == o.type = "relationship" /\ o.target_ref = LastGroup.id

ForwardTarget(o) == \E r \in SeqRange(objects) : Forward(r) /\ r.target_ref = o.id

ReverseSource(o) == \E r \in SeqRange(objects) : Reverse(r) /\ r.source_ref = o.id

\* the place, among the relationships rels, of the first one whose end attr is x
FirstRef(rels, attr, x) ==
    CHOOSE k \in DOMAIN rels : rels[k][attr] = x /\ \A j \in 1..(k - 1) : rels[j][attr] # x

\* the elements of s stand in the order of the relationships that refer to them
InRelationshipOrder(s, rels, attr) ==
    \A i, j \in DOMAIN s :
        i < j => FirstRef(rels, attr, s[i].id) <= FirstRef(rels, attr, s[j].id)

\* C17 as stated: forward relationships, then reverse relationships; forward
\* targets, then reverse sources, each in the order of the relationships that
\* refer to them.
C17_Original ==
    Resolved =>
        LET fwd == SelectSeq(objects, Forward)
            rev == SelectSeq(objects, Reverse)
            nf == Len(SelectSeq(objects, ForwardTarget))
            t == Resolution.targets
        IN  /\ Resolution.relationships = fwd \o rev
            /\ InRelationshipOrder(SubSeq(t, 1, nf), fwd, "target_ref")
            /\ InRelationshipOrder(SubSeq(t, nf + 1, Len(t)), rev, "source_ref")

\* C17 amended: forward relationships, then reverse relationships, each in
\* corpus order; then every corpus object whose id is the target of a forward
\* relationship, then every corpus object whose id is the source of a reverse
\* relationship, each in corpus order whatever the order of the relationships.
C17_CorpusOrder ==
    Resolved =>
        /\ Resolution.relationships
              = SelectSeq(objects, Forward) \o SelectSeq(objects, Reverse)
        /\ Resolution.targets
              = SelectSeq(objects, ForwardTarget) \o SelectSeq(objects, ReverseSource)

\* two targets stand in the corpus in the opposite order of the forward
\* relationships that refer to them
C17_Witness ==
    /\ Resolved
    /\ \E i, j \in DOMAIN objects, k, l \in DOMAIN objects :
          /\ i < j /\ k < l
          /\ Forward(objects[k]) /\ Forward(objects[l])
          /\ objects[k].target_ref = objects[j].id
          /\ objects[l].target_ref = objects[i].id
          /\ objects[i].id # objects[j].id
    /\ Len(Resolution.targets) = 2

\* the relationships of the corpus that have the last group at one end
Incident(o) == Forward(o) \/ Reverse(o)

\* the corpus objects at the other end of such a relationship
OtherEnd(o) == ForwardTarget(o) \/ ReverseSource(o)

\* C18: the resolver returns exactly the relationships that have the source id
\* as source_ref or target_ref, and exactly the corpus objects whose id is the
\* other end of one of them; an object further away is never returned, and a
\* group's bundle holds nothing but the group, those relationships and those
\* objects.
C18_OneHop ==
    /\ Resolved =>
          /\ SeqRange(Resolution.relationships) = {o \in SeqRange(objects) : Incident(o)}
          /\ SeqRange(Resolution.targets) = {o \in SeqRange(objects) : OtherEnd(o)}
    /\ JustSaved =>
          \A k \in DOMAIN LastBundle :
              \E o \in SeqRange(objects) :
                  /\ LastBundle[k] = Untyped(o)
                  /\ o.id = LastGroup.id \/ Incident(o) \/ OtherEnd(o)

\* the corpus holds an object two relationships away from the extracted
\* group, and the group's bundle does not hold it
C18_Witness ==
    /\ JustSaved
    /\ \E o \in SeqRange(objects), mid \in SeqRange(objects), r \in SeqRange(objects) :
          /\ OtherEnd(mid) /\ mid.id # LastGroup.id
          /\ r.type = "relationship"
          /\ \/ r.source_ref = mid.id /\ r.target_ref = o.id
             \/ r.target_ref = mid.id /\ r.source_ref = o.id
          /\ ~OtherEnd(o) /\ o.id # LastGroup.id
          /\ o.type # "relationship"
          /\ ~HasId(LastBundle, o.id)
          /\ ~HasId(LastBundle, r.id)
          /\ HasId(LastBundle, mid.id)

\* the corpus as the loader returns it from the canonical file
FreshCorpus == load_stix_data(raw[Canon]).parsed

CorpusIds == {objects[k].id : k \in DOMAIN objects}

\* the id at the end of the relationship r that is not the last group
FarEnd(r) == IF r.source_ref = LastGroup.id THEN r.target_ref ELSE r.source_ref

\* a relationship of the last group whose other end no corpus object has
Dangling(r) == Incident(r) /\ FarEnd(r) \notin CorpusIds

\* C20: a relationship of the group that refers to an id no corpus object has
\* does not make resolution or extraction fail; the relationship is in the
\* group's bundle, no object stands in for the missing end, and the other
\* related objects are resolved as without it.
C20_DanglingTolerated ==
    /\ (Resolved /\ faults = 0) => \A k \in DOMAIN log : log[k].outcome = "none"
    /\ JustSaved =>
          /\ \A r \in SeqRange(objects) :
                Dangling(r) =>
                    /\ HasId(LastBundle, r.id)
                    /\ IdUnique(r) => Holds(LastBundle, r)
                    /\ ~HasId(LastBundle, FarEnd(r))
          /\ \A o \in SeqRange(objects) : OtherEnd(o) => HasId(LastBundle, o.id)
          /\ \A k \in DOMAIN LastBundle : LastBundle[k].id \in CorpusIds

\* a group with a relationship to a missing id, a relationship from a missing
\* id and a relationship to an object of the corpus was extracted
C20_Witness ==
    /\ JustSaved
    /\ \E r, q, p \in SeqRange(objects), o \in SeqRange(objects) :
          /\ Dangling(r) /\ Forward(r)
          /\ Dangling(q) /\ Reverse(q)
          /\ Forward(p) /\ p.target_ref = o.id /\ o.id # LastGroup.id
          /\ Holds(LastBundle, r) /\ Holds(LastBundle, q)
          /\ Holds(LastBundle, p) /\ Holds(LastBundle, o)
    /\ Len(LastBundle) = 5

\* ------------------------------------------------------------- write errors
\* an iteration of the extract loop could not open or write its group's file
ExtractWriteFailed ==
    pc = "extract" /\ log'[Len(log')].outcome \in {"open", "serialize"}

\* a merge could not write the canonical file: the bundle was built and the
\* write failed, or the copy of the single candidate failed
MergeWriteFailed ==
    /\ lastCmd' = "merge" /\ runs' = runs + 1
    /\ rep'.mode = "failed"
    /\ nextBid' = nextBid + 1 \/ Len(rep'.order) = 1

\* C21 as stated: an output file that cannot be written is logged and the
\* command goes on without an unhandled error, in extract and in merge alike.
C21_WriteErrorRecoverable ==
    [][/\ ExtractWriteFailed =>
             /\ out'[Len(out')].text = "write_failed"
             /\ idx' = idx + 1
             /\ exitCode' # 1
       /\ MergeWriteFailed =>
             /\ out'[Len(out')].text = "write_failed"
             /\ exitCode' = 0]_vars

\* --------------------------------------------------------- fatal propagation
LoadFatal == lastCmd = "extract" /\ out # <<>> /\ out[1].text = "load_error"

ReportedSuccess == \E k \in DOMAIN out : out[k].text = "pipeline_completed"

\* C22: once extract_all_apts of the init pipeline hits the fatal load error
\* (canonical file missing or not JSON), the process has ended with exit
\* status 1 and from then on, forever, no later stage is entered and the
\* completion line is never printed.
C22_FatalPropagation ==
    [](LoadFatal => [](/\ stage = "aborted"
                       /\ exitCode = 1
                       /\ pc = "idle"
                       /\ ~ReportedSuccess))

\* the merge stage copied a candidate that is not a JSON document, the
\* extract stage could not load it and the pipeline stopped there
C22_Witness ==
    /\ LoadFatal
    /\ stage = "aborted"
    /\ rep.mode = "copy"
    /\ raw[Canon] # NoFile /\ ~raw[Canon].ok
    /\ exitCode = 1

\* ------------------------------------------------------------ CLI dispatch
UsagePrinted(console) == \E k \in DOMAIN console : console[k].text = "usage"

OtherRawFiles(f) == RawNames \ {f}

\* C23: main runs, for download, merge, extract and help, exactly the one
\* operation of that name: download touches nothing but the downloaded file,
\* merge nothing but the canonical file, extract nothing in the raw
\* directory, help no file at all; for a word that is no command and for no
\* word at all it prints the usage text, runs no operation, touches no file
\* and exits with status 1.  The loop of extract that follows calls nothing
\* further.
C23_Dispatch ==
    [][/\ runs' = runs + 1 =>
            LET argv == cli'.argv
                command == IF Len(argv) < 1 THEN "" ELSE Lower(argv[1])
            IN  /\ Len(cli'.ops) = 1
                /\ command = "download" =>
                      /\ cli'.ops = <<"download_all">> /\ lastCmd' = "download"
                      /\ \A f \in OtherRawFiles(DownloadName) : raw'[f] = raw[f]
                      /\ aptDir' = aptDir /\ pc' = "idle"
                      /\ ~UsagePrinted(out')
                /\ command = "merge" =>
                      /\ cli'.ops = <<"merge_all_stix_files">> /\ lastCmd' = "merge"
                      /\ \A f \in OtherRawFiles(Canon) : raw'[f] = raw[f]
                      /\ aptDir' = aptDir /\ pc' = "idle"
                      /\ ~UsagePrinted(out')
                /\ command = "extract" =>
                      /\ cli'.ops = <<"extract_all_apts">> /\ lastCmd' = "extract"
                      /\ raw' = raw /\ rep' = rep
                      /\ ~UsagePrinted(out')
                /\ command = "help" =>
                      /\ cli'.ops = <<"show_help">> /\ lastCmd' = "help"
                      /\ UsagePrinted(out')
                      /\ raw' = raw /\ aptDir' = aptDir /\ pc' = "idle"
                /\ command \notin {"download", "merge", "extract", "help"} =>
                      /\ cli'.ops = <<"show_help">>
                      /\ UsagePrinted(out')
                      /\ exitCode' = 1
                      /\ raw' = raw /\ aptDir' = aptDir /\ pc' = "idle"
                      /\ rep' = rep /\ objects' = objects
       /\ pc = "extract" => (cli' = cli /\ raw' = raw /\ lastCmd' = lastCmd)]_vars

\* an unknown word was answered with the usage text and status 1
C23_Witness ==
    /\ cli.argv = <<"list">>
    /\ cli.ops = <<"show_help">>
    /\ out = <<Msg("unknown_command", "", 0, 0), Msg("usage", "", 0, 0)>>
    /\ exitCode = 1

\* ------------------------------------------------------------ run summaries
\* an extract run went through its whole loop
ExtractEnded == lastCmd = "extract" /\ pc = "idle" /\ exitCode = 0 /\ log # <<>>

GroupLineTexts == {"saved", "bundle_failed", "write_failed"}

GroupLines ==
    LET Is(l) == l.text \in GroupLineTexts IN SelectSeq(out, Is)

Written == {k \in DOMAIN log : log[k].outcome = "none"}

Failed == {k \in DOMAIN log : log[k].outcome # "none"}

CandidateRecords ==
    UNION {SeqRange(raw[f].objs) : f \in get_stix_files(raw, Canon)}

BundlesWritten == {log[k].file : k \in Written}

TargetOf(p) ==
    IF procs[p].cmd = "merge" THEN raw[Canon] ELSE aptDir[procs[p].target]

\* C26 as stated: wherever a run stands, and so wherever it may be killed, the
\* file it is writing is as it was before the write began or holds the whole
\* new document, and no file of the two directories is empty or partial.
\* Stated for runs that never ran beside another run.
C26_WholeDocumentWrites ==
    ~overlap =>
        /\ \A p \in Procs :
              procs[p].pc = "opened" =>
                  TargetOf(p) \in {procs[p].before, procs[p].doc}
        /\ raw[Canon] # EmptyFile
        /\ \A f \in DOMAIN aptDir : aptDir[f] # EmptyFile

\* ------------------------------------------------------- concurrent runs
NoneKilled == \A p \in Procs : procs[p].pc # "killed"

AllDone == \A p \in Procs : procs[p].pc = "done"

\* the documents that the merge runs which have ended wrote
MergedDocs ==
    {procs[p].doc : p \in {q \in Procs : /\ procs[q].cmd = "merge"
                                         /\ procs[q].pc = "done"
                                         /\ procs[q].exit = 0
                                         /\ procs[q].doc # NoFile}}

\* the states of the canonical file that runs executed one after the other
\* can find or leave: as it was before the runs, or a whole document of a
\* merge that has ended
SequentialStates == {canonBefore} \cup MergedDocs

Loads == {p \in Procs : procs[p].cmd = "extract" /\ procs[p].pc # "start"}

\* C27: when the two runs execute one after the other (no step of one run
\* falls between the first step and the end of the other, no run is killed),
\* every extract loads the canonical file as it was before the runs or as a
\* merge that has ended wrote it, and when both runs have ended the canonical
\* file is in such a state.  The witness is the interleaving the engine does
\* not exclude: an extract loads the file a merge has just emptied.
C27_SequentialRunsSafe ==
    (~overlap /\ NoneKilled) =>
        /\ \A p \in Loads : procs[p].saw \in SequentialStates
        /\ AllDone => raw[Canon] \in SequentialStates

\* a merge and an extract interleaved: the extract found the canonical file
\* empty and ended with status 1, although the file was a loadable bundle
\* before the merge and is one after it
C27_Witness ==
    /\ overlap /\ NoneKilled /\ AllDone
    /\ \E p, q \in Procs :
          /\ procs[p].cmd = "extract" /\ procs[q].cmd = "merge"
          /\ procs[p].saw = EmptyFile /\ procs[p].exit = 1
          /\ procs[p].saw \notin SequentialStates
          /\ canonBefore = OldCanon
          /\ procs[q].exit = 0 /\ raw[Canon] = procs[q].doc
          /\ ~load_stix_data(raw[Canon]).fatal

\* ---------------------------------------------------------- merge twice
Merges == {p \in Procs : procs[p].cmd = "merge"}

\* two merge runs, one after the other, both ended normally
MergedTwice ==
    /\ Merges = Procs
    /\ ~overlap /\ NoneKilled /\ AllDone
    /\ \A p \in Procs : procs[p].exit = 0

\* C28: when merge is run twice in a row on the same candidate files, the
\* second run writes the object list (ids, payloads, order) that the first
\* run wrote, and that list is what the canonical file holds at the end; with
\* no candidate neither run touches the canonical file.
C28_MergeIdempotent ==
    MergedTwice =>
        /\ procs[1].doc.objs = procs[2].doc.objs
        /\ procs[1].doc.ok = procs[2].doc.ok
        /\ procs[1].doc # NoFile => raw[Canon].objs = procs[1].doc.objs
        /\ procs[1].doc = NoFile => raw[Canon] = canonBefore

\* X, Y and Y, Z were merged twice next to an older canonical file: two
\* bundles with different bundle ids and the same three objects
C28_Witness ==
    /\ MergedTwice
    /\ canonBefore = OldCanon
    /\ procs[1].doc.bid # procs[2].doc.bid
    /\ Len(procs[2].doc.objs) = 3
    /\ raw[Canon].objs = procs[1].doc.objs
    /\ raw[Canon] # canonBefore

\* ------------------------------------------------------- records without id
WithId(o) == o.id # Absent

\* the records merge read, in the order it read them
ReadRecords == CandidateObjects(rep.order)

\* C29: in a merge of two or more candidates no record without an id reaches
\* the merged bundle, however many there are and wherever they stand: the
\* bundle is what the merge of the records that have an id gives, every
\* object of it has an id, the number of survivors is the number of distinct
\* ids read, and every record without an id counts among the dropped ones.
C29_NoIdLeftOut ==
    Deduplicated =>
        LET read == ReadRecords
            ids == {read[k].id : k \in DOMAIN read} \ {Absent}
            noid == {k \in DOMAIN read : read[k].id = Absent}
            later == {k \in DOMAIN read :
                         read[k].id # Absent /\ \E j \in 1..(k - 1) : read[j].id = read[k].id}
        IN  /\ rep.unique = Cardinality(ids)
            /\ rep.total - rep.unique = Cardinality(noid) + Cardinality(later)
            /\ rep.mode = "bundle" =>
                  /\ \A k \in DOMAIN raw[Canon].objs : raw[Canon].objs[k].id # Absent
                  /\ raw[Canon].objs = KeepFirstById(SelectSeq(read, WithId))
                  /\ Len(raw[Canon].objs) = Cardinality(ids)

\* two records without an id in two files beside one object: both are left
\* out, neither stands for the other
C29_Witness ==
    /\ Deduplicated
    /\ rep.mode = "bundle"
    /\ Cardinality({k \in DOMAIN ReadRecords : ReadRecords[k].id = Absent}) = 2
    /\ rep.total = 3 /\ rep.unique = 1
    /\ raw[Canon].objs = <<G1>>

\* ---------------------------------------------------------- nothing to merge
\* a merge starts on a raw directory without any candidate
MergeWithoutCandidates ==
    /\ pc = "idle" /\ lastCmd' = "merge" /\ runs' = runs + 1
    /\ get_stix_files(raw, Canon) = {}

\* C30: a merge that finds no candidate beside the canonical file prints that
\* there is nothing to process and returns normally; the canonical file is
\* not created when it was absent and is left as it was when it was there,
\* no other file of the two directories changes, and no bundle is built.
C30_NothingToMerge ==
    [][MergeWithoutCandidates =>
          /\ out' = <<Msg("no_files", "", 0, 0)>>
          /\ exitCode' = 0
          /\ raw' = raw
          /\ aptDir' = aptDir
          /\ rep' = NoRep
          /\ nextBid' = nextBid]_vars

\* a merge found nothing beside an older canonical file and left it alone
C30_Witness ==
    /\ lastCmd = "merge"
    /\ out = <<Msg("no_files", "", 0, 0)>>
    /\ \A f \in Candidates : raw[f] = NoFile
    /\ raw[Canon] = OldCanon
    /\ canonBefore = OldCanon
    /\ exitCode = 0

====
